---- MODULE Spec2Model ----
(***************************************************************************)
(* State-machine model of src/src/components/BookingForm.tsx: the booking  *)
(* draft kept in React state, the asynchronous submit handler with its     *)
(* two suspension points (the payment call and the balance check), the     *)
(* balance-reconciliation heuristic and the 'bookedSessions' list in       *)
(* localStorage.                                                           *)
(*                                                                         *)
(* Money is counted in integer cents.  Text is a sequence of one-character *)
(* strings so that trimming and parsing are computed, not assumed.  The    *)
(* session date, the record id and the creation timestamp (clock and date  *)
(* picker values) are not part of the model.                               *)
(***************************************************************************)
EXTENDS Integers, Sequences, FiniteSets, TLC

\* ------------------------------------------------------------------ bounds

\* Most records the stored list may hold before the model stops submitting.
MaxSessions == 2

\* Most handleSubmit invocations the model lets be suspended at once.
MaxFlows == 2

\* ------------------------------------------------------------ input domains

\* mentor.hourlyRate in cents: free, one cent an hour, 45.15 an hour.
Rates == {0, 1, 4515}

\* The four SelectItem values of the duration control.
Durations == {30, 60, 90, 120}

\* mentor.availability.timeSlots
TimeSlots == {"10:00"}

\* Values typed into the topic and goals controls.
Texts == {<< >>, <<" ">>, <<"a", " ">>}

\* Strings getWalletBalance may resolve to.
Balances == {<<"$", "1", ",", "0", "0", "0", ".", "5", "0">>, <<"N", "/", "A">>}

\* Results makePaymentFromCart may resolve to.
PaymentResults ==
  {[success |-> TRUE, message |-> "Payment successful"],
   [success |-> FALSE, message |-> "Insufficient funds"]}

\* Values an awaited service call may reject with: an Error, or something else.
Thrown ==
  {[isError |-> TRUE, message |-> "Network error"],
   [isError |-> FALSE, message |-> ""]}

MentorId == "m1"
MentorName == "Ada"

\* --------------------------------------------------------------- pure parts

Null == "null"
NaN == -1

ValidationMessage == "Please fill in all required fields"
DefaultErrorMessage == "An error occurred during payment"

Digits == <<"0", "1", "2", "3", "4", "5", "6", "7", "8", "9">>

IsDigit(c) == \E d \in DOMAIN Digits : Digits[d] = c

DigitVal(c) == (CHOOSE d \in DOMAIN Digits : Digits[d] = c) - 1

\* String.prototype.trim
RECURSIVE TrimStart(_)
TrimStart(s) ==
  IF s # << >> /\ Head(s) = " " THEN TrimStart(Tail(s)) ELSE s

RECURSIVE TrimEnd(_)
TrimEnd(s) ==
  IF s # << >> /\ s[Len(s)] = " " THEN TrimEnd(SubSeq(s, 1, Len(s) - 1)) ELSE s

TrimIdentity(s) == s

Trim(s) == TrimEnd(TrimStart(s))

\* currentBalance.replace(/[^0-9.]/g, '')
StripNonNumeric(s) == SelectSeq(s, LAMBDA c : IsDigit(c) \/ c = ".")

\* Length of the run of digits of s that starts at index i.
RECURSIVE DigitRun(_, _)
DigitRun(s, i) ==
  IF i <= Len(s) /\ IsDigit(s[i]) THEN 1 + DigitRun(s, i + 1) ELSE 0

\* Decimal value of the n digits of s that start at index i.
RECURSIVE DigitsValue(_, _, _)
DigitsValue(s, i, n) ==
  IF n = 0 THEN 0
  ELSE 10 * DigitsValue(s, i, n - 1) + DigitVal(s[i + n - 1])

\* parseFloat, in cents: the longest numeric prefix (digits, then at most one
\* point and digits), NaN when that prefix holds no digit.  Fraction digits
\* past the second are below one cent and dropped.
ParseFloat(s) ==
  LET whole == DigitRun(s, 1)
      point == whole + 1 <= Len(s) /\ s[whole + 1] = "."
      frac == IF point THEN DigitRun(s, whole + 2) ELSE 0
      tenths == IF frac >= 1 THEN DigitVal(s[whole + 2]) ELSE 0
      hundredths == IF frac >= 2 THEN DigitVal(s[whole + 3]) ELSE 0
  IN  IF whole = 0 /\ frac = 0 THEN NaN
      ELSE 100 * DigitsValue(s, 1, whole) + 10 * tenths + hundredths

\* Rate and duration pairs of the model whose double product
\* hourlyRate * hours * 100 lies just below a half-cent tie:
\* 45.15 * 1.5 * 100 evaluates to 6772.499999999999.
BelowTie == {<<4515, 90>>}

\* Math.round(hourlyRate * hours * 100) / 100 with hours = sessionDuration / 60.
\* Math.round rounds a half up; the product is a double, so an exact tie may
\* reach it from below.
RoundedAmount(hourlyRate, sessionDuration) ==
  LET n == hourlyRate * sessionDuration
      q == n \div 60
      r == n % 60
  IN  IF r > 30 \/ (r = 30 /\ <<hourlyRate, sessionDuration>> \notin BelowTie)
      THEN q + 1
      ELSE q

\* The effect that recomputes paymentAmount from the duration.
DurationEffect(fd, hourlyRate) ==
  [fd EXCEPT !.paymentAmount = RoundedAmount(hourlyRate, fd.sessionDuration)]

\* useState initial value of formData.
InitialFormData(hourlyRate) ==
  [mentorId |-> MentorId,
   sessionTime |-> "",
   sessionDuration |-> 60,
   topic |-> << >>,
   goals |-> << >>,
   paymentAmount |-> hourlyRate]

\* The validation gate of handleSubmit.
FailsValidation(fd) ==
  Trim(fd.topic) = << >> \/ Trim(fd.goals) = << >> \/ fd.sessionTime = ""

ReconcileAlwaysTrue(previousBalance, paymentAmount) == {TRUE}

\* Outcomes of Math.abs(previousBalance - expectedBalance) < 0.01 with
\* expectedBalance = previousBalance - paymentAmount.  A NaN balance makes
\* the comparison false.  A difference of exactly one cent is decided by the
\* rounding of the double subtraction, which depends on the balance
\* (1000.50 - (1000.50 - 0.01) < 0.01, but 2.00 - (2.00 - 0.01) > 0.01).
ReconcileOutcomes(previousBalance, paymentAmount) ==
  IF previousBalance = NaN THEN {FALSE}
  ELSE LET expectedBalance == previousBalance - paymentAmount
           diff == previousBalance - expectedBalance
           abs == IF diff < 0 THEN -diff ELSE diff
       IN  IF abs < 1 THEN {TRUE}
           ELSE IF abs = 1 THEN {TRUE, FALSE}
           ELSE {FALSE}

SessionDetailsPending(fd) ==
  [mentorId |-> MentorId,
   mentorName |-> MentorName,
   time |-> fd.sessionTime,
   duration |-> fd.sessionDuration,
   topic |-> fd.topic,
   goals |-> fd.goals,
   amount |-> fd.paymentAmount,
   status |-> "pending"]

\* The sessionDetails object built from the draft the handler closed over.
SessionDetails(fd) ==
  [mentorId |-> MentorId,
   mentorName |-> MentorName,
   time |-> fd.sessionTime,
   duration |-> fd.sessionDuration,
   topic |-> fd.topic,
   goals |-> fd.goals,
   amount |-> fd.paymentAmount,
   status |-> "confirmed"]

\* JSON.parse(localStorage.getItem("bookedSessions") || "[]")
ExistingSessions(store) == IF store.present THEN store.items ELSE << >>

PushNothing(store, sessionDetails) ==
  [present |-> TRUE, items |-> ExistingSessions(store)]

PushOverwrites(store, sessionDetails) ==
  [present |-> TRUE, items |-> <<sessionDetails>>]

\* existingSessions.push(sessionDetails); localStorage.setItem(...)
PushSession(store, sessionDetails) ==
  [present |-> TRUE, items |-> Append(ExistingSessions(store), sessionDetails)]

ErrorTextDefault(err) == DefaultErrorMessage

\* err instanceof Error ? err.message : "An error occurred during payment"
ErrorText(err) == IF err.isError THEN err.message ELSE DefaultErrorMessage

RemoveAt(s, i) == SubSeq(s, 1, i - 1) \o SubSeq(s, i + 1, Len(s))

\* A record of an earlier booking, made with another mentor.
OldSession ==
  [mentorId |-> "m0",
   mentorName |-> "Bob",
   time |-> "09:00",
   duration |-> 60,
   topic |-> <<"x">>,
   goals |-> <<"y">>,
   amount |-> 2000,
   status |-> "confirmed"]

\* ------------------------------------------------------------------- state

VARIABLES
  hourlyRate,    \* mentor.hourlyRate, in cents
  formData,      \* the booking draft
  isSubmitting,  \* the submitting flag
  error,         \* the inline error message, or Null
  flows,         \* the suspended handleSubmit invocations, oldest first
  storage,       \* localStorage["bookedSessions"]
  last,          \* what the most recently finished handleSubmit did
  successes,     \* submissions that took a success path so far
  initLen        \* length of the stored list when the form was mounted

vars ==
  <<hourlyRate, formData, isSubmitting, error, flows, storage, last, successes, initLen>>

NoThrow == [isError |-> FALSE, message |-> "<none>"]

NoLast ==
  [outcome |-> "none", toast |-> "", appended |-> 0, closeCalls |-> 0,
   successCalls |-> 0, amount |-> 0, previousBalance |-> NaN, preAttempt |-> NaN,
   thrown |-> NoThrow]

Init ==
  /\ hourlyRate \in Rates
  /\ formData = DurationEffect(InitialFormData(hourlyRate), hourlyRate)
  /\ isSubmitting = FALSE
  /\ error = Null
  /\ flows = << >>
  /\ storage \in {[present |-> FALSE, items |-> << >>],
                  [present |-> TRUE, items |-> <<OldSession>>]}
  /\ last = NoLast
  /\ successes = 0
  /\ initLen = Len(ExistingSessions(storage))

\* ----------------------------------------------------------------- editing

\* handleInputChange(e, field) for the topic and goals controls.
HandleInputChange(field, value) ==
  /\ formData' = [formData EXCEPT ![field] = value]
  /\ UNCHANGED <<hourlyRate, isSubmitting, error, flows, storage, last, successes, initLen>>

\* handleSelectChange(value, "sessionTime")
HandleSelectTime(value) ==
  /\ formData' = [formData EXCEPT !.sessionTime = value]
  /\ UNCHANGED <<hourlyRate, isSubmitting, error, flows, storage, last, successes, initLen>>

\* handleSelectChange(parseInt(value), "sessionDuration"), followed by the
\* effect that the change of duration triggers.
HandleSelectDuration(value) ==
  /\ formData' = DurationEffect([formData EXCEPT !.sessionDuration = value], hourlyRate)
  /\ UNCHANGED <<hourlyRate, isSubmitting, error, flows, storage, last, successes, initLen>>

\* ------------------------------------------------------------ handleSubmit

SubmitEnabledIgnoringFlag ==
  /\ formData.sessionTime # ""
  /\ formData.topic # << >>
  /\ formData.goals # << >>

\* The submit control is enabled (its disabled attribute is false).
SubmitEnabled ==
  /\ ~isSubmitting
  /\ formData.sessionTime # ""
  /\ formData.topic # << >>
  /\ formData.goals # << >>

FinallySkipped == UNCHANGED isSubmitting

\* finally { setIsSubmitting(false) }
Finally == isSubmitting' = FALSE

\* handleSubmit up to its first suspension point: the validation gate, then
\* the call of makePaymentFromCart with the draft of this render.
HandleSubmit ==
  /\ SubmitEnabled
  /\ Len(flows) < MaxFlows
  /\ Len(ExistingSessions(storage)) < MaxSessions
  /\ IF FailsValidation(formData)
     THEN /\ error' = ValidationMessage
          /\ isSubmitting' = FALSE
          /\ last' = [NoLast EXCEPT !.outcome = "invalid", !.toast = "Validation Error"]
          /\ UNCHANGED flows
     ELSE /\ error' = Null
          /\ isSubmitting' = TRUE
          /\ flows' = Append(flows, [pc |-> "awaitPay", snap |-> formData, message |-> ""])
          /\ last' = NoLast
  /\ UNCHANGED <<hourlyRate, formData, storage, successes, initLen>>

\* Lines 119-141: build the record, append it to the stored list, call
\* onClose and onSuccess; then the finally block.
StoreAndClose(i, outcome, previousBalance, preAttempt) ==
  /\ storage' = PushSession(storage, SessionDetails(flows[i].snap))
  /\ last' = [outcome |-> outcome,
              toast |-> "Payment Successful",
              appended |-> Len(ExistingSessions(storage')) - Len(ExistingSessions(storage)),
              closeCalls |-> 1,
              successCalls |-> 1,
              amount |-> flows[i].snap.paymentAmount,
              previousBalance |-> previousBalance,
              preAttempt |-> preAttempt,
              thrown |-> NoThrow]
  /\ flows' = RemoveAt(flows, i)
  /\ Finally
  /\ UNCHANGED <<hourlyRate, formData, error, initLen>>

\* Lines 143-153: the catch block, then the finally block.
Catch(i, outcome, err) ==
  /\ error' = ErrorText(err)
  /\ last' = [NoLast EXCEPT !.outcome = outcome, !.toast = "Error",
                            !.amount = flows[i].snap.paymentAmount,
                            !.thrown = err]
  /\ flows' = RemoveAt(flows, i)
  /\ Finally
  /\ UNCHANGED <<hourlyRate, formData, storage, successes, initLen>>

\* makePaymentFromCart resolves.
PaymentReturns(i, paymentResult) ==
  /\ i \in DOMAIN flows
  /\ flows[i].pc = "awaitPay"
  /\ IF paymentResult.success
     THEN /\ StoreAndClose(i, "paid", NaN, NaN)
          /\ successes' = successes + 1
     ELSE /\ flows' = [flows EXCEPT ![i].pc = "awaitBalance",
                                    ![i].message = paymentResult.message]
          /\ UNCHANGED <<hourlyRate, formData, isSubmitting, error, storage, last,
                         successes, initLen>>

\* makePaymentFromCart rejects.
PaymentThrows(i, err) ==
  /\ i \in DOMAIN flows
  /\ flows[i].pc = "awaitPay"
  /\ Catch(i, "paymentThrew", err)

\* Lines 102-110: the payment is taken to have failed.
PaymentFailed(i, previousBalance, preAttempt) ==
  /\ error' = flows[i].message
  /\ last' = [NoLast EXCEPT !.outcome = "failed", !.toast = "Payment Failed",
                            !.amount = flows[i].snap.paymentAmount,
                            !.previousBalance = previousBalance,
                            !.preAttempt = preAttempt]
  /\ flows' = RemoveAt(flows, i)
  /\ Finally
  /\ UNCHANGED <<hourlyRate, formData, storage, successes, initLen>>

\* getWalletBalance resolves to currentBalance.  charged tells whether the
\* wallet was debited by the payment attempt, so the balance before the
\* attempt was the balance now plus the amount when it was.
BalanceReturns(i, currentBalance, charged) ==
  /\ i \in DOMAIN flows
  /\ flows[i].pc = "awaitBalance"
  /\ LET previousBalance == ParseFloat(StripNonNumeric(currentBalance))
         paymentAmount == flows[i].snap.paymentAmount
         preAttempt == IF previousBalance = NaN THEN NaN
                       ELSE IF charged THEN previousBalance + paymentAmount
                       ELSE previousBalance
     IN  \E matches \in ReconcileOutcomes(previousBalance, paymentAmount) :
           IF matches
           THEN /\ StoreAndClose(i, "reconciled", previousBalance, preAttempt)
                /\ successes' = successes + 1
           ELSE PaymentFailed(i, previousBalance, preAttempt)

\* getWalletBalance rejects.
BalanceThrows(i, err) ==
  /\ i \in DOMAIN flows
  /\ flows[i].pc = "awaitBalance"
  /\ Catch(i, "balanceThrew", err)

PaymentResponds ==
  \E i \in 1..MaxFlows :
    \/ \E paymentResult \in PaymentResults : PaymentReturns(i, paymentResult)
    \/ \E err \in Thrown : PaymentThrows(i, err)

BalanceResponds ==
  \E i \in 1..MaxFlows :
    \/ \E currentBalance \in Balances, charged \in BOOLEAN :
         BalanceReturns(i, currentBalance, charged)
    \/ \E err \in Thrown : BalanceThrows(i, err)

Next ==
  \/ \E field \in {"topic", "goals"}, value \in Texts : HandleInputChange(field, value)
  \/ \E value \in TimeSlots : HandleSelectTime(value)
  \/ \E value \in Durations : HandleSelectDuration(value)
  \/ HandleSubmit
  \/ PaymentResponds
  \/ BalanceResponds

Spec == Init /\ [][Next]_vars

\* Every awaited service call eventually resolves or rejects.
LiveSpec == Spec /\ WF_vars(PaymentResponds) /\ WF_vars(BalanceResponds)

\* ------------------------------------------------------------------ claims

SuccessOutcomes == {"paid", "reconciled"}

FailureOutcomes == {"invalid", "failed", "paymentThrew", "balanceThrew"}

\* Text that is empty once trimmed: every character is a space.
Blank(s) == \A k \in DOMAIN s : s[k] = " "

InvalidDraft(fd) == Blank(fd.topic) \/ Blank(fd.goals) \/ fd.sessionTime = ""

IsPrefix(s, t) == Len(s) <= Len(t) /\ SubSeq(t, 1, Len(s)) = s

Abs(x) == IF x < 0 THEN -x ELSE x

\* C1: the stored list grows by exactly one record per submission that took a
\* success path and by none per failed submission, so its length is always
\* its initial length plus the number of successful submissions so far.
C1_OneRecordPerSuccess ==
  /\ Len(ExistingSessions(storage)) = initLen + successes
  /\ last.outcome \in SuccessOutcomes => last.appended = 1
  /\ last.outcome \in FailureOutcomes => last.appended = 0

C1_Witness ==
  /\ initLen = 0
  /\ successes = 1
  /\ Len(ExistingSessions(storage)) = 1
  /\ last.outcome = "failed"

\* C2: when makePaymentFromCart resolves with success = true, the handler
\* finishes in that step without fetching the balance and appends a record
\* with status "confirmed" whose mentor id, time, duration, topic, goals and
\* amount are those of the draft at submit time.
C2_PaidAppendsConfirmed ==
  [][\A i \in DOMAIN flows :
       (flows[i].pc = "awaitPay" /\ last'.outcome = "paid" /\ flows' = RemoveAt(flows, i))
       => LET stored == ExistingSessions(storage')
              added == stored[Len(stored)]
          IN  /\ Len(stored) = Len(ExistingSessions(storage)) + 1
              /\ added.status = "confirmed"
              /\ added.mentorId = flows[i].snap.mentorId
              /\ added.time = flows[i].snap.sessionTime
              /\ added.duration = flows[i].snap.sessionDuration
              /\ added.topic = flows[i].snap.topic
              /\ added.goals = flows[i].snap.goals
              /\ added.amount = flows[i].snap.paymentAmount
              /\ last'.previousBalance = NaN
              /\ \A j \in DOMAIN flows' : flows'[j].pc # "awaitBalance"]_vars

C2_Witness ==
  /\ last.outcome = "paid"
  /\ storage.present
  /\ storage.items[Len(storage.items)].status = "confirmed"
  /\ storage.items[Len(storage.items)].duration # formData.sessionDuration

\* C3: a handleSubmit invocation on a draft whose topic or goals are blank or
\* whose time slot is unset sets the validation message and does nothing
\* else: no payment or balance call is started, nothing is stored, neither
\* callback runs and the form is not left submitting.
C3_ValidationBlocks ==
  [][(/\ flows = << >>
      /\ InvalidDraft(formData)
      /\ <<isSubmitting, error, flows, storage, last>>' # <<isSubmitting, error, flows, storage, last>>)
     => /\ error' = ValidationMessage
        /\ flows' = << >>
        /\ storage' = storage
        /\ last'.outcome = "invalid"
        /\ last'.closeCalls = 0
        /\ last'.successCalls = 0
        /\ ~isSubmitting']_vars

C3_Witness ==
  /\ last.outcome = "invalid"
  /\ error = ValidationMessage
  /\ formData.topic # << >>
  /\ Blank(formData.topic)
  /\ flows = << >>

\* C4: a reported failure is treated as a success exactly when the balance
\* fetched after the attempt is within one cent of the balance before the
\* attempt minus the payment amount.
C4_ReconcilesAgainstPreAttemptBalance ==
  last.outcome \in {"reconciled", "failed"}
  => (last.outcome = "reconciled"
      <=> /\ last.previousBalance # NaN
          /\ Abs(last.previousBalance - (last.preAttempt - last.amount)) < 1)

\* C5 as stated: the comparison is always true, so the genuine-failure
\* branch is never taken.
C5_FailureBranchNeverTaken == last.outcome # "failed"

\* C5 amended: the comparison tests the payment amount alone.  With an amount
\* of two cents or more a reported failure is a genuine failure whatever the
\* balance; with an amount of zero and a numeric balance it is a success; a
\* balance that is not numeric is a genuine failure.
C5_ComparisonTestsAmountOnly ==
  last.outcome \in {"reconciled", "failed"}
  => /\ last.amount >= 2 => last.outcome = "failed"
     /\ (last.amount = 0 /\ last.previousBalance # NaN) => last.outcome = "reconciled"
     /\ last.previousBalance = NaN => last.outcome = "failed"
     /\ last.outcome = "failed" => (error # Null /\ last.appended = 0)

C5_Witness ==
  /\ last.outcome = "failed"
  /\ last.amount >= 2
  /\ last.previousBalance # NaN
  /\ last.preAttempt = last.previousBalance + last.amount

\* C6: when makePaymentFromCart rejects, the handler finishes in that step:
\* the error state holds the thrown Error's message (the default text for a
\* thrown value that is no Error), nothing is stored, neither callback runs
\* and no payment call of that submission remains or is started.
C6_ThrownPaymentAborts ==
  [][\A i \in DOMAIN flows :
       (flows[i].pc = "awaitPay" /\ last'.outcome = "paymentThrew")
       => /\ flows' = RemoveAt(flows, i)
          /\ storage' = storage
          /\ error' = (IF last'.thrown.isError THEN last'.thrown.message
                       ELSE DefaultErrorMessage)
          /\ last'.closeCalls = 0
          /\ last'.successCalls = 0
          /\ ~isSubmitting']_vars

C6_Witness ==
  /\ last.outcome = "paymentThrew"
  /\ last.thrown.isError
  /\ error = "Network error"

\* C7: at most one handleSubmit invocation is suspended at any time, and
\* while one is suspended the submitting flag is true.
C7_OneFlowAtATime ==
  /\ Len(flows) <= 1
  /\ flows # << >> => isSubmitting

C7_Witness ==
  /\ Len(flows) = 1
  /\ flows[1].pc = "awaitBalance"
  /\ formData.sessionTime # ""
  /\ ~Blank(formData.topic)
  /\ ~Blank(formData.goals)

\* C8: the draft's paymentAmount is the hourly rate times duration / 60
\* rounded half up to the cent, and so is the amount of every draft handed to
\* the payment call and of every record this form stored.
C8_AmountIsRoundedPrice ==
  LET Price(duration) == (2 * hourlyRate * duration + 60) \div 120
      stored == ExistingSessions(storage)
  IN  /\ formData.paymentAmount = Price(formData.sessionDuration)
      /\ \A i \in DOMAIN flows :
           flows[i].snap.paymentAmount = Price(flows[i].snap.sessionDuration)
      /\ \A k \in DOMAIN stored :
           k > initLen => stored[k].amount = Price(stored[k].duration)

\* C9: the stored list only grows at its end, and only in a step that
\* finishes a submission on a success path.
C9_AppendOnly ==
  [][/\ IsPrefix(ExistingSessions(storage), ExistingSessions(storage'))
     /\ storage' # storage => last'.outcome \in SuccessOutcomes]_vars

C9_Witness ==
  /\ initLen = 1
  /\ Len(ExistingSessions(storage)) = 2
  /\ storage.items[1] = OldSession

\* C10: the submitting flag is true while a submission is suspended, false
\* whenever none is, and once true it eventually becomes false again.
C10_FlagEventuallyReset ==
  /\ [](flows # << >> => isSubmitting)
  /\ [](flows = << >> => ~isSubmitting)
  /\ (isSubmitting ~> ~isSubmitting)

C10_Witness ==
  /\ last.outcome = "balanceThrew"
  /\ flows = << >>
  /\ ~isSubmitting
  /\ SubmitEnabled

====
